---- MODULE Spec2Model ----
(***************************************************************************)
(* Model of toolman.org/net/peercred: the credential-extracting Listener   *)
(* (Close through sync.Once, Accept / AcceptPeerCred / AcceptContext with  *)
(* the cancellation watcher goroutine, the SO_PEERCRED probe) and the      *)
(* grpcpeer transport credentials (ServerHandshake, ClientHandshake,       *)
(* FromContext).                                                           *)
(***************************************************************************)
EXTENDS Integers, Sequences, FiniteSets, TLC

\* ------------------------------------------------------------------ bounds
MaxCalls == 2
MaxConns == 2
NumClosers == 1

\* ------------------------------------------------------------ value domains
\* A Go nil pointer / nil interface is the empty sequence, a non-nil one a
\* one-element sequence holding the pointee.
None == <<>>
Some(x) == <<x>>

\* The unix.Ucred the kernel reports for the client process behind the i-th
\* connection: every client is a process of its own (the first one is root's).
PeerOf(i) ==
  [pid |-> 100 + i, uid |-> 1000 * (i - 1), gid |-> 100 * (i - 1)]

\* The zero value of unix.Ucred (what a forgotten "absent" would look like).
ZeroUcred == [pid |-> 0, uid |-> 0, gid |-> 0]

\* Contexts a caller may hand to AcceptContext; each can be cancelled once.
UserCtxs == {"c1"}

\* Call numbers of the accept loop, and the goroutines that may call Close:
\* the watcher started by call k, and the explicit callers.
CallIds == 1..MaxCalls
Watcher(k) == <<"w", k>>
Watchers == { Watcher(k) : k \in CallIds }
Explicit == { <<"x", i>> : i \in 1..NumClosers }
Closers == Watchers \cup Explicit

\* The record of an accept call: its entry point and ctx, what the wrapped
\* Accept produced, the number of credential probes made and the error the
\* probe met, and the result.  uclosed tells whether Close was called on the
\* accepted connection.  cat is history: where the call was when its ctx was
\* cancelled ("before" the call, at a position of the accept loop, "returned",
\* or "no").
NoCall ==
  [entry |-> "none", ctx |-> "nil", uerr |-> "nil", uconn |-> None,
   uclosed |-> FALSE, probes |-> 0, perr |-> "nil",
   out |-> [conn |-> None, err |-> "nil"], returned |-> FALSE, cat |-> "no"]

VARIABLES
  lkind,      \* kind of connection the wrapped net.Listener yields
  lstate,     \* wrapped net.Listener: "open" or "closed"
  closeCalls, \* number of calls of the wrapped net.Listener's Close
  closeErr,   \* what the wrapped Close returned ("none" before it ran)
  once,       \* Listener.once: "fresh", "running" (f executing) or "done"
  clpc,       \* per Close caller: position in select / Close / once.Do
  wctx,       \* per watcher goroutine: the ctx it captured ("nil" once it is gone)
  closeRets,  \* what Listener.Close calls have returned so far: the error, and
              \* whether the call ran f ("release") or not ("skip")
  queue,      \* connections pending in the kernel's accept queue
  nconn,      \* connections that have arrived so far
  cancelled,  \* per user context: is it cancelled
  pc,         \* position of the accept loop's goroutine
  call,       \* number of the current (or last) accept call
  cur,        \* record of the current (or last) accept call
  cwb,        \* history: ctx of the current call was cancelled while it was
              \* blocked with nothing to accept
  interrupted,\* history: some AcceptContext call was interrupted by cancellation
  rpc,        \* state of the grpcpeer handshake / lookup model
  sd,         \* state of the SDListen / SDListenNames call
  bind        \* state of the Listen call

lvars ==
  <<lkind, lstate, closeCalls, closeErr, once, clpc, wctx, closeRets, queue,
    nconn, cancelled, pc, call, cur, cwb, interrupted>>

vars == <<lvars, rpc, sd, bind>>

\* ------------------------------------------------------------------ helpers
Running == pc # "panic"

\* ctx.Err() of a non-nil context: context.Background() is never cancelled.
CtxErr(c) == IF c \in UserCtxs /\ cancelled[c] THEN "Canceled" ELSE "nil"

\* ----------------------------------------------------------- Listener.Close
\* Mutant of OnceEnter: Close without the one-shot gate runs f whenever no other
\* caller is inside it.
OnceEnterUngated(p) ==
  /\ clpc[p] = "do"
  /\ once # "running"
  /\ once' = "running"
  /\ clpc' = [clpc EXCEPT ![p] = "run"]
  /\ UNCHANGED <<closeRets, wctx>>

\* sync.Once.Do: the first caller runs f, callers arriving while f runs wait,
\* callers arriving afterwards return at once.
OnceEnter(p) ==
  /\ clpc[p] = "do"
  /\ once = "fresh"
  /\ once' = "running"
  /\ clpc' = [clpc EXCEPT ![p] = "run"]
  /\ UNCHANGED <<closeRets, wctx>>

\* Where a Close caller stands once its Close has returned: the watcher
\* goroutine ends, an owner carries on.
AfterClose(p) == IF p \in Watchers THEN "exitClosed" ELSE "ret"

\* A watcher goroutine that has ended holds no context any more.
WatcherGone(p) ==
  IF p \in Watchers THEN [wctx EXCEPT ![p[2]] = "nil"] ELSE wctx

\* Mutant of OnceSkip: the outcome of the release is kept in the Listener and
\* handed to every later caller.
OnceSkipSharesErr(p) ==
  /\ clpc[p] = "do"
  /\ once = "done"
  /\ clpc' = [clpc EXCEPT ![p] = AfterClose(p)]
  /\ wctx' = WatcherGone(p)
  /\ closeRets' = closeRets \cup {[by |-> "skip", err |-> closeErr]}
  /\ UNCHANGED <<once>>

\* 'var err error' stays nil for every caller that does not run f.
OnceSkip(p) ==
  /\ clpc[p] = "do"
  /\ once = "done"
  /\ clpc' = [clpc EXCEPT ![p] = AfterClose(p)]
  /\ wctx' = WatcherGone(p)
  /\ closeRets' = closeRets \cup {[by |-> "skip", err |-> "nil"]}
  /\ UNCHANGED <<once>>

OnceDo(p) ==
  /\ Running
  /\ OnceEnter(p) \/ OnceSkip(p)
  /\ UNCHANGED <<lkind, lstate, closeCalls, closeErr, queue, nconn,
                 cancelled, pc, call, cur, cwb, interrupted, rpc, sd, bind>>

\* f: err = pcl.Listener.Close(); the wrapped Close may itself report an error.
\* Closing the listening socket drops the connections still pending on it.
UnderlyingClose(p) ==
  /\ Running
  /\ clpc[p] = "run"
  /\ \E e \in {"nil", "ErrClose"} :
       /\ closeErr' = e
       /\ closeRets' = closeRets \cup {[by |-> "release", err |-> e]}
  /\ closeCalls' = closeCalls + 1
  /\ lstate' = "closed"
  /\ queue' = <<>>
  /\ once' = "done"
  /\ clpc' = [clpc EXCEPT ![p] = AfterClose(p)]
  /\ wctx' = WatcherGone(p)
  /\ UNCHANGED <<lkind, nconn, cancelled, pc, call, cur, cwb, interrupted, rpc, sd, bind>>

\* An owner of the Listener calls Close (each explicit caller once; a repeated
\* call by the same owner is a later call by another).
CloseCall(p) ==
  /\ Running
  /\ p \in Explicit
  /\ clpc[p] = "idle"
  /\ clpc' = [clpc EXCEPT ![p] = "do"]
  /\ UNCHANGED <<lkind, lstate, closeCalls, closeErr, once, wctx, closeRets,
                 queue, nconn, cancelled, pc, call, cur, cwb, interrupted, rpc, sd, bind>>

\* ---------------------------------------------------------- Listener.accept
\* The context each entry point hands to accept: Accept passes
\* context.Background(), AcceptPeerCred passes nil, AcceptContext its argument.
CtxOf(entry, c) ==
  CASE entry = "Accept" -> "background"
    [] entry = "AcceptPeerCred" -> "nil"
    [] OTHER -> c

\* The local channel 'done' of call k is closed by the deferred close(done),
\* that is, once call k has returned (calls are made one after the other).
Done(k) == k < call \/ (k = call /\ pc = "idle")

\* Entry of accept: with a non-nil ctx, make 'done', defer its close and start
\* the watcher goroutine; then call the wrapped Accept.
AcceptCall(entry, c) ==
  /\ Running
  /\ pc = "idle"
  /\ call < MaxCalls
  /\ call' = call + 1
  /\ cur' = [NoCall EXCEPT !.entry = entry, !.ctx = CtxOf(entry, c),
                            !.cat = IF CtxErr(CtxOf(entry, c)) # "nil"
                                      THEN "before" ELSE "no"]
  /\ IF CtxOf(entry, c) # "nil"
       THEN /\ clpc' = [clpc EXCEPT ![Watcher(call + 1)] = "select"]
            /\ wctx' = [wctx EXCEPT ![call + 1] = CtxOf(entry, c)]
       ELSE UNCHANGED <<clpc, wctx>>
  /\ pc' = "accepting"
  /\ cwb' = FALSE
  /\ UNCHANGED <<lkind, lstate, closeCalls, closeErr, once, closeRets, queue,
                 nconn, cancelled, interrupted, rpc, sd, bind>>

\* pcl.Listener.Accept() hands over the oldest pending connection.
UnderlyingAcceptConn ==
  /\ Running
  /\ pc = "accepting"
  /\ lstate = "open"
  /\ queue # <<>>
  /\ cur' = [cur EXCEPT !.uconn = Some(Head(queue))]
  /\ queue' = Tail(queue)
  /\ pc' = "accepted"
  /\ UNCHANGED <<lkind, lstate, closeCalls, closeErr, once, clpc, wctx,
                 closeRets, nconn, cancelled, call, cwb, interrupted, rpc, sd, bind>>

\* pcl.Listener.Accept() on a closed listener fails ("use of closed network
\* connection"), whether it was blocked or not.
UnderlyingAcceptClosed ==
  /\ Running
  /\ pc = "accepting"
  /\ lstate = "closed"
  /\ cur' = [cur EXCEPT !.uerr = "ErrClosed"]
  /\ pc' = "failed"
  /\ UNCHANGED <<lkind, lstate, closeCalls, closeErr, once, clpc, wctx,
                 closeRets, queue, nconn, cancelled, call, cwb, interrupted, rpc, sd, bind>>

\* pcl.Listener.Accept() on an open listener may fail for a reason of its own
\* (EMFILE, ECONNABORTED, ...).
UnderlyingAcceptError ==
  /\ Running
  /\ pc = "accepting"
  /\ lstate = "open"
  /\ cur' = [cur EXCEPT !.uerr = "ErrTransient"]
  /\ pc' = "failed"
  /\ UNCHANGED <<lkind, lstate, closeCalls, closeErr, once, clpc, wctx,
                 closeRets, queue, nconn, cancelled, call, cwb, interrupted, rpc, sd, bind>>

\* Mutant of ReplaceErr: the accept error is returned as it is.
ReplaceErrKeep(c, err) == err

\* 'if ctx.Err() != nil { err = ctx.Err() }' for a non-nil ctx.
ReplaceErr(c, err) == IF CtxErr(c) # "nil" THEN CtxErr(c) ELSE err

\* Evaluating ctx.Err(): on a nil context.Context this is a method call on a
\* nil interface, a run-time panic.
ErrPanics(c) == c = "nil"

\* The error branch of accept: 'return nil, err' unless ctx.Err() panics.
AcceptFailed ==
  /\ Running
  /\ pc = "failed"
  /\ IF ErrPanics(cur.ctx)
       THEN /\ pc' = "panic"
            /\ UNCHANGED cur
       ELSE /\ pc' = "deferred"
            /\ cur' = [cur EXCEPT !.out =
                         [conn |-> None, err |-> ReplaceErr(cur.ctx, cur.uerr)]]
  /\ UNCHANGED <<lkind, lstate, closeCalls, closeErr, once, clpc, wctx,
                 closeRets, queue, nconn, cancelled, call, cwb, interrupted, rpc, sd, bind>>

\* What the operating system does to a probe: nothing ("nil"), or it fails
\* uc.SyscallConn, rc.Control or the SO_PEERCRED getsockopt.
ProbeFaults == {"nil", "ErrSyscallConn", "ErrControl", "ErrGetsockopt"}

\* The error a probe step returns under fault f.
StepErr(step, f) == IF f = step THEN f ELSE "nil"

\* unix.GetsockoptUcred: the peer's credential, or nil with an error.
GetsockoptUcred(conn, e) == IF e = "nil" THEN Some(conn.peer) ELSE None

\* Mutant of ProbedUcred: the credential is never stored.
ProbedUcredDropped(conn, e2, e3) == None

\* The credential the probe leaves in 'ucred': Control runs the callback only
\* when it succeeds itself.
ProbedUcred(conn, e2, e3) ==
  IF e2 = "nil" THEN GetsockoptUcred(conn, e3) ELSE None

\* Mutant of Probe: only the callback's err is tested, Control's own error is
\* forgotten.
ProbeForgetsControl(conn, e1, e2, e3) ==
  LET pcc == [Ucred |-> None, Conn |-> conn.id]
      err == IF e2 = "nil" THEN e3 ELSE "nil"
  IN  IF conn.kind # "unix"
        THEN [conn |-> Some(pcc), err |-> "nil"]
      ELSE IF e1 # "nil"
        THEN [conn |-> None, err |-> e1]
      ELSE IF err # "nil"
        THEN [conn |-> None, err |-> err]
      ELSE [conn |-> Some([pcc EXCEPT !.Ucred =
                             IF e2 = "nil" THEN Some(conn.peer) ELSE None]),
            err |-> "nil"]

\* The tail of accept: wrap conn, pass a non-Unix connection through,
\* otherwise SyscallConn, then Control running GetsockoptUcred, and attach the
\* credential.
Probe(conn, e1, e2, e3) ==
  LET pcc == [Ucred |-> None, Conn |-> conn.id]
      err == IF e2 = "nil" THEN e3 ELSE "nil"
  IN  IF conn.kind # "unix"
        THEN [conn |-> Some(pcc), err |-> "nil"]
      ELSE IF e1 # "nil"
        THEN [conn |-> None, err |-> e1]
      ELSE IF e2 # "nil" \/ err # "nil"
        THEN [conn |-> None, err |-> IF err = "nil" THEN e2 ELSE err]
      ELSE [conn |-> Some([pcc EXCEPT !.Ucred = ProbedUcred(conn, e2, e3)]),
            err |-> "nil"]

\* How many times the probe (SyscallConn onwards) runs on an accepted
\* connection: once on a Unix connection, never on another.
ProbeRuns(conn) == IF conn.kind = "unix" THEN 1 ELSE 0

AcceptProbe ==
  /\ Running
  /\ pc = "accepted"
  /\ \E f \in ProbeFaults :
       /\ ProbeRuns(cur.uconn[1]) = 0 => f = "nil"
       /\ cur' = [cur EXCEPT
                    !.out = Probe(cur.uconn[1], StepErr("ErrSyscallConn", f),
                                  StepErr("ErrControl", f),
                                  StepErr("ErrGetsockopt", f)),
                    !.probes = @ + ProbeRuns(cur.uconn[1]),
                    !.perr = f]
  /\ pc' = "deferred"
  /\ UNCHANGED <<lkind, lstate, closeCalls, closeErr, once, clpc, wctx,
                 closeRets, queue, nconn, cancelled, call, cwb, interrupted, rpc, sd, bind>>

\* Listener.Accept's switch on err: the *Conn on nil, a plain nil otherwise.
AcceptWrap(r) == IF r.err = "nil" THEN r ELSE [conn |-> None, err |-> r.err]

\* What the entry point returns to its caller.
EntryResult(entry, r) == IF entry = "Accept" THEN AcceptWrap(r) ELSE r

\* An AcceptContext call that the forced close unblocked and that reports the
\* cancellation instead.
Interrupted(c) ==
  /\ c.entry = "AcceptContext"
  /\ c.uerr = "ErrClosed"
  /\ c.out.err = "Canceled"

\* accept returns: the deferred close(done) runs (see Done), and the entry
\* point hands the result to its caller.
AcceptReturn ==
  /\ Running
  /\ pc = "deferred"
  /\ cur' = [cur EXCEPT !.out = EntryResult(cur.entry, @), !.returned = TRUE]
  /\ interrupted' = (interrupted \/ Interrupted(cur))
  /\ pc' = "idle"
  /\ UNCHANGED <<lkind, lstate, closeCalls, closeErr, once, clpc, wctx,
                 closeRets, queue, nconn, cancelled, call, cwb, rpc, sd, bind>>

\* The watcher's select: case <-done.
WatcherDone(k) ==
  /\ Running
  /\ clpc[Watcher(k)] = "select"
  /\ Done(k)
  /\ clpc' = [clpc EXCEPT ![Watcher(k)] = "exitDone"]
  /\ wctx' = WatcherGone(Watcher(k))
  /\ UNCHANGED <<lkind, lstate, closeCalls, closeErr, once, closeRets, queue,
                 nconn, cancelled, pc, call, cur, cwb, interrupted, rpc, sd, bind>>

\* The watcher's select: case <-ctx.Done(), followed by pcl.Close().  When both
\* channels are ready select picks either case.
WatcherCancelled(k) ==
  /\ Running
  /\ clpc[Watcher(k)] = "select"
  /\ CtxErr(wctx[k]) # "nil"
  /\ clpc' = [clpc EXCEPT ![Watcher(k)] = "do"]
  /\ UNCHANGED <<lkind, lstate, closeCalls, closeErr, once, wctx, closeRets,
                 queue, nconn, cancelled, pc, call, cur, cwb, interrupted, rpc, sd, bind>>

\* -------------------------------------------------------------- environment
\* A client connects: the kernel queues the connection with the peer's identity.
Arrive ==
  /\ lstate = "open"
  /\ nconn < MaxConns
  /\ nconn' = nconn + 1
  /\ queue' = Append(queue, [id |-> nconn + 1, kind |-> lkind,
                             peer |-> PeerOf(nconn + 1)])
  /\ UNCHANGED <<lkind, lstate, closeCalls, closeErr, once, clpc, wctx,
                 closeRets, cancelled, pc, call, cur, cwb, interrupted, rpc, sd, bind>>

\* Whether the accept loop is blocked in the wrapped Accept of an
\* AcceptContext(c) call with nothing to accept.
BlockedOn(c) ==
  /\ pc = "accepting"
  /\ cur.entry = "AcceptContext"
  /\ cur.ctx = c
  /\ lstate = "open"
  /\ queue = <<>>

\* The owner of context c cancels it.
Cancel(c) ==
  /\ ~cancelled[c]
  /\ cancelled' = [cancelled EXCEPT ![c] = TRUE]
  /\ cwb' = (cwb \/ BlockedOn(c))
  /\ cur' = IF cur.ctx = c
              THEN [cur EXCEPT !.cat = IF cur.returned THEN "returned" ELSE pc]
              ELSE cur
  /\ UNCHANGED <<lkind, lstate, closeCalls, closeErr, once, clpc, wctx,
                 closeRets, queue, nconn, pc, call, interrupted, rpc, sd, bind>>

\* ----------------------------------------------------------------- grpcpeer
MaxLookups == 2

\* The net.Conn values a gRPC server may hand to ServerHandshake: a
\* *peercred.Conn with or without a credential, or a connection of another type.
HandshakeConns ==
  { [type |-> "peercred.Conn", Ucred |-> u, id |-> 1] :
      u \in {None, Some(PeerOf(1)), Some(PeerOf(2))} }
    \cup { [type |-> "net.TCPConn", Ucred |-> None, id |-> 1] }

\* credentials.AuthInfo of the inner layer, and an authentication record that
\* is not a *credInfo.
TLSInfo == [type |-> "credentials.TLSInfo", ucred |-> None, inner |-> None]

\* What the inner TransportCredentials' handshake does with conn: it fails, or
\* it returns the secured connection and its AuthInfo.
InnerHandshake(conn, ok) ==
  IF ok
    THEN [conn |-> Some([type |-> "tls.Conn", Ucred |-> None, id |-> conn.id]),
          info |-> Some(TLSInfo), err |-> "nil"]
    ELSE [conn |-> None, info |-> None, err |-> "ErrTLSHandshake"]

\* &peerCredentials{} (TransportCredentials) or &peerCredentials{NewTLS(cfg)}
\* (TLSTransportCredentials, TLSClientCredentials); nothing has happened yet.
NewAdapter(tc) ==
  [tcreds |-> tc, conn |-> None, inner |-> None, hs |-> None, ch |-> None,
   ctx |-> None, fc |-> None, nfc |-> 0]

\* Mutant of ServerHandshake: after a failed inner handshake the connection and
\* the captured credential are still returned.
ServerHandshakeLeaks(tc, conn, in) ==
  LET ci == [type |-> "credInfo",
             ucred |-> IF conn.type = "peercred.Conn" THEN conn.Ucred ELSE None,
             inner |-> None]
  IN  IF tc = "nil" \/ in.err # "nil"
        THEN [conn |-> Some(conn), info |-> Some(ci), err |-> in.err]
        ELSE [conn |-> in.conn, info |-> Some([ci EXCEPT !.inner = in.info]),
              err |-> "nil"]

\* Mutant of ServerHandshake: with an inner layer, its AuthInfo is returned in
\* place of the merged record.
ServerHandshakeUnmerged(tc, conn, in) ==
  LET ci == [type |-> "credInfo",
             ucred |-> IF conn.type = "peercred.Conn" THEN conn.Ucred ELSE None,
             inner |-> None]
  IN  IF tc = "nil"
        THEN [conn |-> Some(conn), info |-> Some(ci), err |-> "nil"]
      ELSE IF in.err # "nil"
        THEN [conn |-> None, info |-> None, err |-> in.err]
      ELSE [conn |-> in.conn, info |-> in.info, err |-> "nil"]

\* peerCredentials.ServerHandshake: capture Ucred from a *peercred.Conn; done
\* when there is no inner layer; otherwise run the inner handshake ('in' is its
\* result) and merge its AuthInfo into the record.
ServerHandshake(tc, conn, in) ==
  LET ci == [type |-> "credInfo",
             ucred |-> IF conn.type = "peercred.Conn" THEN conn.Ucred ELSE None,
             inner |-> None]
  IN  IF tc = "nil"
        THEN [conn |-> Some(conn), info |-> Some(ci), err |-> "nil"]
      ELSE IF in.err # "nil"
        THEN [conn |-> None, info |-> None, err |-> in.err]
      ELSE [conn |-> in.conn, info |-> Some([ci EXCEPT !.inner = in.info]),
            err |-> "nil"]

\* Mutant of ClientHandshake: the client side is refused whatever the
\* configuration.
ClientHandshakeRefuses(tc, conn, in) ==
  [conn |-> None, info |-> None, err |-> "errNotImplemented"]

\* peerCredentials.ClientHandshake: delegate to the inner layer when there is
\* one ('in' is its result), errNotImplemented otherwise.
ClientHandshake(tc, conn, in) ==
  IF tc # "nil"
    THEN in
    ELSE [conn |-> None, info |-> None, err |-> "errNotImplemented"]

\* FromContext: ErrNoPeer without a peer, the record's ucred when the peer's
\* AuthInfo is a *credInfo, ErrNoCredentials otherwise.
FromContext(ctx) ==
  IF ~ctx.peer
    THEN [ucred |-> None, err |-> "ErrNoPeer"]
  ELSE IF ctx.auth # None /\ ctx.auth[1].type = "credInfo"
    THEN [ucred |-> ctx.auth[1].ucred, err |-> "nil"]
  ELSE [ucred |-> None, err |-> "ErrNoCredentials"]

\* gRPC runs the server-side handshake on an accepted connection.
DoServerHandshake(conn, ok) ==
  /\ rpc' = [rpc EXCEPT
               !.conn = Some(conn),
               !.inner = IF rpc.tcreds = "nil" THEN None
                         ELSE Some(InnerHandshake(conn, ok)),
               !.hs = Some(ServerHandshake(rpc.tcreds, conn,
                                           InnerHandshake(conn, ok))),
               !.ch = None, !.ctx = None, !.fc = None, !.nfc = 0]
  /\ UNCHANGED <<lvars, sd, bind>>

\* gRPC runs the client-side handshake on a dialled connection.
DoClientHandshake(conn, ok) ==
  /\ rpc' = [rpc EXCEPT
               !.conn = Some(conn),
               !.inner = IF rpc.tcreds = "nil" THEN None
                         ELSE Some(InnerHandshake(conn, ok)),
               !.ch = Some(ClientHandshake(rpc.tcreds, conn,
                                           InnerHandshake(conn, ok))),
               !.hs = None, !.ctx = None, !.fc = None, !.nfc = 0]
  /\ UNCHANGED <<lvars, sd, bind>>

\* A request arrives over the connection whose server handshake succeeded:
\* its context carries a peer whose AuthInfo is the handshake's record.
ServeRequest ==
  /\ rpc.hs # None
  /\ rpc.hs[1].err = "nil"
  /\ rpc.ctx = None
  /\ rpc' = [rpc EXCEPT
               !.ctx = Some([peer |-> TRUE, auth |-> rpc.hs[1].info,
                             via |-> rpc.conn])]
  /\ UNCHANGED <<lvars, sd, bind>>

\* Contexts that do not come from this adapter: no peer at all, a peer without
\* AuthInfo, a peer with another layer's AuthInfo.
ForeignContexts ==
  { [peer |-> FALSE, auth |-> None, via |-> None],
    [peer |-> TRUE, auth |-> None, via |-> None],
    [peer |-> TRUE, auth |-> Some(TLSInfo), via |-> None] }

OtherContext(c) ==
  /\ rpc.ctx = None
  /\ c \in ForeignContexts
  /\ rpc' = [rpc EXCEPT !.ctx = Some(c)]
  /\ UNCHANGED <<lvars, sd, bind>>

\* A service method calls grpcpeer.FromContext(ctx).
DoFromContext ==
  /\ rpc.ctx # None
  /\ rpc.nfc < MaxLookups
  /\ rpc' = [rpc EXCEPT !.fc = Some(FromContext(rpc.ctx[1])), !.nfc = @ + 1]
  /\ UNCHANGED <<lvars, sd, bind>>

\* ------------------------------------------------- systemd socket activation
\* Strings are sequences of one-character strings.
MaxPidLen == 2
MaxFdsLen == 1
MaxNamesLen == 3

\* const fdBase
fdBase == 3

\* All strings over an alphabet, up to a length.
StringsOver(chars, n) == UNION { [1..k -> chars] : k \in 0..n }

Digits == <<"0", "1", "2", "3", "4", "5", "6", "7", "8", "9">>

IsDigit(ch) == \E d \in 1..Len(Digits) : Digits[d] = ch

DigitVal(ch) == (CHOOSE d \in 1..Len(Digits) : Digits[d] = ch) - 1

\* The value of a string of decimal digits.
RECURSIVE ParseUint(_)
ParseUint(s) ==
  IF s = <<>> THEN 0
  ELSE 10 * ParseUint(SubSeq(s, 1, Len(s) - 1)) + DigitVal(s[Len(s)])

\* strconv.Atoi: an optional sign and at least one decimal digit, anything
\* else is a syntax error.
Atoi(s) ==
  LET signed == s # <<>> /\ s[1] \in {"+", "-"}
      digits == IF signed THEN Tail(s) ELSE s
  IN  IF digits = <<>> \/ \E k \in 1..Len(digits) : ~IsDigit(digits[k])
        THEN [val |-> 0, err |-> "ErrSyntax"]
        ELSE [val |-> IF signed /\ s[1] = "-" THEN 0 - ParseUint(digits)
                                              ELSE ParseUint(digits),
              err |-> "nil"]

\* strings.Split(s, sep) for a one-character sep: the pieces between the
\* separators, one piece (s itself, possibly empty) when there is none.
RECURSIVE Split(_, _)
Split(s, sep) ==
  IF \A k \in 1..Len(s) : s[k] # sep
    THEN <<s>>
    ELSE LET k == CHOOSE j \in 1..Len(s) :
                    s[j] = sep /\ \A m \in 1..(j - 1) : s[m] # sep
         IN  <<SubSeq(s, 1, k - 1)>> \o Split(SubSeq(s, k + 1, Len(s)), sep)

\* The environments a process may be started in: its pid and the three
\* variables (an unset variable reads as the empty string).
HostPids == {1, 12}
Environments ==
  [pid : HostPids,
   LISTEN_PID : StringsOver({"1", "2", "x"}, MaxPidLen),
   LISTEN_FDS : StringsOver({"0", "1", "2", "3", "x"}, MaxFdsLen),
   LISTEN_FDNAMES : StringsOver({"a", "b", ":"}, MaxNamesLen)]

\* A call of SDListen or SDListenNames: the variables it read, the loop index
\* and map of SDListenNames, the descriptors handed to os.NewFile /
\* net.FileListener in order, the descriptors whose Listener was closed, what
\* SDListenNames returned (lismap, nerr) and what SDListen returned (lis, err).
SDIdle(env) ==
  [env |-> env, entry |-> "none", pc |-> "idle", lfdnames |-> <<>>,
   fdcnt |-> 0, i |-> 0, out |-> {}, wrapped |-> <<>>, closed |-> {},
   lismap |-> None, nerr |-> "nil", lis |-> None, err |-> "nil"]

\* Mutant of SDPrecheck: LISTEN_PID is parsed but not compared with the
\* process id.
SDPrecheckAnyPid(env) ==
  IF env.LISTEN_PID = <<>> \/ env.LISTEN_FDS = <<>>
    THEN [fdcnt |-> 0, err |-> "ErrNotFound"]
  ELSE IF Atoi(env.LISTEN_PID).err # "nil"
    THEN [fdcnt |-> 0, err |-> Atoi(env.LISTEN_PID).err]
  ELSE [fdcnt |-> Atoi(env.LISTEN_FDS).val, err |-> Atoi(env.LISTEN_FDS).err]

\* The tests SDListenNames makes before its loop: both variables set,
\* LISTEN_PID a number equal to os.Getpid(), LISTEN_FDS a number.  The count
\* comparison that follows builds an error and drops it.
SDPrecheck(env) ==
  IF env.LISTEN_PID = <<>> \/ env.LISTEN_FDS = <<>>
    THEN [fdcnt |-> 0, err |-> "ErrNotFound"]
  ELSE IF Atoi(env.LISTEN_PID).err # "nil"
    THEN [fdcnt |-> 0, err |-> Atoi(env.LISTEN_PID).err]
  ELSE IF Atoi(env.LISTEN_PID).val # env.pid
    THEN [fdcnt |-> 0, err |-> "ErrPidMismatch"]
  ELSE [fdcnt |-> Atoi(env.LISTEN_FDS).val, err |-> Atoi(env.LISTEN_FDS).err]

\* SDListen or SDListenNames is called: SDListenNames reads the environment.
SDCall(entry) ==
  /\ sd.pc = "idle"
  /\ sd' = [sd EXCEPT !.entry = entry, !.pc = "check",
                      !.lfdnames = Split(sd.env.LISTEN_FDNAMES, ":")]
  /\ UNCHANGED <<lvars, rpc, bind>>

\* SDListenNames up to 'out := make(...)': return nil and the error of a
\* failed test, or enter the loop with an empty map.
SDCheck ==
  /\ sd.pc = "check"
  /\ LET r == SDPrecheck(sd.env)
     IN  IF r.err # "nil"
           THEN sd' = [sd EXCEPT !.pc = "namesret", !.nerr = r.err]
           ELSE sd' = [sd EXCEPT !.pc = "loop", !.fdcnt = r.fdcnt]
  /\ UNCHANGED <<lvars, rpc, bind>>

\* out[n] = lis: a later entry under the same name replaces the earlier one.
MapPut(out, n, fd) ==
  { e \in out : e.name # n } \cup {[name |-> n, fd |-> fd]}

\* One iteration of the loop: lfdnames[i] (a run-time panic when i is out of
\* range), os.NewFile and net.FileListener on descriptor fdBase+i, which the
\* operating system accepts or not, and the map entry.
SDWrap ==
  /\ sd.pc = "loop"
  /\ sd.i < sd.fdcnt
  /\ IF sd.i >= Len(sd.lfdnames)
       THEN sd' = [sd EXCEPT !.pc = "panic"]
       ELSE \E ok \in BOOLEAN :
              IF ok
                THEN sd' = [sd EXCEPT
                              !.wrapped = Append(@, fdBase + sd.i),
                              !.out = MapPut(@, sd.lfdnames[sd.i + 1],
                                             fdBase + sd.i),
                              !.i = @ + 1]
                ELSE sd' = [sd EXCEPT
                              !.wrapped = Append(@, fdBase + sd.i),
                              !.pc = "namesret", !.nerr = "ErrFileListener"]
  /\ UNCHANGED <<lvars, rpc, bind>>

\* The loop is over: 'return out, nil'.
SDNamesReturn ==
  /\ sd.pc = "loop"
  /\ sd.i >= sd.fdcnt
  /\ sd' = [sd EXCEPT !.pc = "namesret", !.lismap = Some(sd.out)]
  /\ UNCHANGED <<lvars, rpc, bind>>

\* SDListen after its call of SDListenNames: the error of SDListenNames, or
\* the switch on len(lismap) and the loop closing every listener of the map.
SDListenResult(lismap, nerr) ==
  IF nerr # "nil"
    THEN [lis |-> None, err |-> nerr, closed |-> {}]
  ELSE IF Cardinality(lismap[1]) = 0
    THEN [lis |-> None, err |-> "ErrNoSockets", closed |-> {}]
  ELSE IF Cardinality(lismap[1]) = 1
    THEN [lis |-> Some((CHOOSE e \in lismap[1] : TRUE).fd), err |-> "nil",
          closed |-> {}]
  ELSE [lis |-> None, err |-> "ErrMultipleSockets",
        closed |-> { e.fd : e \in lismap[1] }]

SDListenReturn ==
  /\ sd.pc = "namesret"
  /\ sd.entry = "SDListen"
  /\ LET r == SDListenResult(sd.lismap, sd.nerr)
     IN  sd' = [sd EXCEPT !.pc = "done", !.lis = r.lis, !.err = r.err,
                          !.closed = r.closed]
  /\ UNCHANGED <<lvars, rpc, bind>>

\* ---------------------------------------------------------------- Listen
MaxWrap == 3

\* const ErrAddrInUse = unix.EADDRINUSE
ErrAddrInUse == "EADDRINUSE"

\* An error value is the chain Unwrap walks, outermost first: wrapping errors
\* (a unix.Errno wraps nothing) around an errno or another plain error.  The
\* nil error is the empty chain.
Errnos == {"EADDRINUSE", "EACCES"}
BindErrors ==
  { w \o <<leaf>> :
      w \in StringsOver({"net.OpError", "os.SyscallError", "fmt.wrapError"},
                        MaxWrap),
      leaf \in Errnos \cup {"errors.errorString"} }

\* errors.As(err, new(unix.Errno)): the first error of the chain that is a
\* unix.Errno, 0 when there is none.
RECURSIVE asErrno(_)
asErrno(err) ==
  IF err = <<>> THEN "0"
  ELSE IF err[1] \in Errnos THEN err[1]
  ELSE asErrno(Tail(err))

\* Mutant of chkAddrInUseError: only the shape *net.OpError >
\* *os.SyscallError > unix.Errno is recognised.
chkAddrInUseErrorFixedShape(err) ==
  IF /\ Len(err) = 3
     /\ err[1] = "net.OpError"
     /\ err[2] = "os.SyscallError"
     /\ err[3] = ErrAddrInUse
    THEN <<err[3]>>
    ELSE err

chkAddrInUseError(err) ==
  IF asErrno(err) = ErrAddrInUse THEN <<asErrno(err)>> ELSE err

\* Listen after lc.Listen returned (l, err).
Listen(err) ==
  IF err # <<>>
    THEN [lis |-> None, err |-> chkAddrInUseError(err)]
    ELSE [lis |-> Some("unix"), err |-> <<>>]

BindIdle == [pc |-> "idle", lerr |-> <<>>, lis |-> None, err |-> <<>>]

\* A call of Listen: the bind succeeds or fails with some error.
DoListen ==
  /\ bind.pc = "idle"
  /\ \E lerr \in BindErrors \cup {<<>>} :
       bind' = [pc |-> "done", lerr |-> lerr, lis |-> Listen(lerr).lis,
                err |-> Listen(lerr).err]
  /\ UNCHANGED <<lvars, rpc, sd>>

\* ------------------------------------------------------------ specification
LInit ==
  /\ lkind \in {"unix", "tcp"}
  /\ lstate = "open"
  /\ closeCalls = 0
  /\ closeErr = "none"
  /\ once = "fresh"
  /\ clpc = [p \in Closers |-> IF p \in Watchers THEN "none" ELSE "idle"]
  /\ wctx = [k \in CallIds |-> "nil"]
  /\ closeRets = {}
  /\ queue = <<>>
  /\ nconn = 0
  /\ cancelled = [c \in UserCtxs |-> FALSE]
  /\ pc = "idle"
  /\ call = 0
  /\ cur = NoCall
  /\ cwb = FALSE
  /\ interrupted = FALSE

\* A process started without socket activation.
NoActivation ==
  [pid |-> 1, LISTEN_PID |-> <<>>, LISTEN_FDS |-> <<>>, LISTEN_FDNAMES |-> <<>>]

Init ==
  /\ LInit
  /\ rpc = NewAdapter("nil")
  /\ sd = SDIdle(NoActivation)
  /\ bind = BindIdle

Next ==
  \/ \E p \in Explicit : CloseCall(p)
  \/ \E p \in Closers : OnceDo(p)
  \/ \E p \in Closers : UnderlyingClose(p)
  \/ \E e \in {"Accept", "AcceptPeerCred", "AcceptContext"}, c \in UserCtxs :
       AcceptCall(e, c)
  \/ UnderlyingAcceptConn
  \/ UnderlyingAcceptClosed
  \/ UnderlyingAcceptError
  \/ AcceptFailed
  \/ AcceptProbe
  \/ AcceptReturn
  \/ \E k \in CallIds : WatcherDone(k)
  \/ \E k \in CallIds : WatcherCancelled(k)
  \/ Arrive
  \/ \E c \in UserCtxs : Cancel(c)

Spec == Init /\ [][Next]_vars

\* The grpcpeer adapter on its own: one adapter, any sequence of handshakes,
\* request contexts and lookups.
RInit ==
  /\ LInit
  /\ lkind = "unix"
  /\ rpc \in { NewAdapter(tc) : tc \in {"nil", "tls"} }
  /\ sd = SDIdle(NoActivation)
  /\ bind = BindIdle

RNext ==
  \/ \E conn \in HandshakeConns, ok \in BOOLEAN : DoServerHandshake(conn, ok)
  \/ \E conn \in HandshakeConns, ok \in BOOLEAN : DoClientHandshake(conn, ok)
  \/ ServeRequest
  \/ \E c \in ForeignContexts : OtherContext(c)
  \/ DoFromContext

SpecRPC == RInit /\ [][RNext]_vars

\* Socket activation on its own: one process, started in any environment,
\* calls SDListen or SDListenNames.
SDInit ==
  /\ LInit
  /\ lkind = "unix"
  /\ rpc = NewAdapter("nil")
  /\ sd \in { SDIdle(env) : env \in Environments }
  /\ bind = BindIdle

SDNext ==
  \/ \E entry \in {"SDListen", "SDListenNames"} : SDCall(entry)
  \/ SDCheck
  \/ SDWrap
  \/ SDNamesReturn
  \/ SDListenReturn

SpecSD == SDInit /\ [][SDNext]_vars

\* Listen on its own.
BInit ==
  /\ LInit
  /\ lkind = "unix"
  /\ rpc = NewAdapter("nil")
  /\ sd = SDIdle(NoActivation)
  /\ bind = BindIdle

BNext == DoListen

SpecListen == BInit /\ [][BNext]_vars

\* The steps the Go scheduler and the kernel are bound to take: a goroutine
\* that can run does run, a closed listener fails a pending Accept, a pending
\* connection is handed to a pending Accept.  Callers, clients and the owners
\* of contexts are under no such obligation.
Fairness ==
  /\ \A p \in Closers : WF_vars(OnceDo(p)) /\ WF_vars(UnderlyingClose(p))
  /\ \A k \in CallIds : WF_vars(WatcherDone(k) \/ WatcherCancelled(k))
  /\ WF_vars(UnderlyingAcceptClosed)
  /\ WF_vars(UnderlyingAcceptConn)
  /\ WF_vars(AcceptFailed)
  /\ WF_vars(AcceptProbe)
  /\ WF_vars(AcceptReturn)

FairSpec == Init /\ [][Next]_vars /\ Fairness

\* ------------------------------------------------------------------- claims
\* C1: however many Close calls are made on one Listener, by its owners or by
\* the cancellation watchers, the wrapped net.Listener's Close is called at
\* most once, and exactly once as soon as any Close call has returned.
C1_CloseOnce ==
  /\ closeCalls <= 1
  /\ (closeRets # {} \/ \E p \in Closers : clpc[p] \in {"ret", "exitClosed"})
       => closeCalls = 1 /\ lstate = "closed"

\* C1 witness: an owner's Close and a watcher's Close have both returned.
C1_Witness ==
  /\ closeCalls = 1
  /\ \E p \in Explicit : clpc[p] = "ret"
  /\ \E k \in CallIds : clpc[Watcher(k)] = "exitClosed"

\* C2: when the wrapped Accept fails, AcceptPeerCred returns a nil connection
\* and a non-nil error, and never ends in a panic.
C2_AcceptPeerCredError ==
  (cur.entry = "AcceptPeerCred" /\ cur.uerr # "nil")
    => /\ pc # "panic"
       /\ pc \in {"deferred", "idle"}
            => cur.out.conn = None /\ cur.out.err # "nil"

\* C3 as claimed: an AcceptContext call whose ctx was cancelled while it was
\* blocked with nothing to accept returns a nil connection and ctx.Err().
C3_CancelledReturnsCtxErr ==
  (cwb /\ cur.returned) => cur.out = [conn |-> None, err |-> "Canceled"]

\* C3, what the code does guarantee (under FairSpec): such a call eventually
\* returns, and it returns a nil connection and ctx.Err(), never the raw error
\* of the forced close, unless the wrapped Accept still obtained a connection
\* that arrived before the forced close.
C3_CancelledReturns ==
  /\ [](cwb /\ cur.returned /\ cur.uconn = None
          => cur.out = [conn |-> None, err |-> "Canceled"])
  /\ (cwb ~> (cwb /\ cur.returned))

\* C4 as claimed: once an AcceptContext call has been interrupted by the
\* cancellation of its context, every later accept call is rejected with an
\* error and none obtains or returns a connection.
C4_RejectedAfterInterrupt ==
  interrupted
    => /\ cur.uconn = None
       /\ cur.out.conn = None
       /\ pc # "panic"
       /\ cur.returned => cur.out.err # "nil"

\* C5: a returned Conn carries a credential exactly when the accepted
\* connection is a Unix-domain one, the credential is the one the kernel
\* reports for that connection's peer, and it is never the zero record.
C5_CredentialIffUnix ==
  cur.out.conn # None
    => LET c == cur.out.conn[1]
           u == cur.uconn[1]
       IN  /\ c.Conn = u.id
           /\ c.Ucred # None <=> u.kind = "unix"
           /\ u.kind = "unix" => c.Ucred = Some(u.peer)
           /\ c.Ucred # Some(ZeroUcred)

\* C5 witness: a call returned the second Unix connection with its credential.
C5_Witness ==
  /\ cur.returned
  /\ cur.out.conn # None
  /\ cur.uconn[1].kind = "unix"
  /\ cur.out.conn[1] = [Ucred |-> Some(PeerOf(2)), Conn |-> 2]

\* C6: when the probe fails on an accepted Unix connection, each entry point
\* returns a nil connection and that error; the probe runs at most once per
\* call, and no Unix connection is returned without a credential.
C6_ProbeFailureRejects ==
  /\ cur.probes <= 1
  /\ (cur.perr # "nil" /\ pc \in {"deferred", "idle"})
       => cur.out = [conn |-> None, err |-> cur.perr]
  /\ (cur.out.conn # None /\ cur.uconn[1].kind = "unix")
       => cur.perr = "nil" /\ cur.out.conn[1].Ucred # None

\* C6 witness: Accept returned after the probe's Control step failed.
C6_Witness ==
  /\ cur.returned
  /\ cur.entry = "Accept"
  /\ cur.perr = "ErrControl"
  /\ cur.probes = 1
  /\ cur.out = [conn |-> None, err |-> "ErrControl"]

\* C7 as claimed: FromContext answers ErrNoPeer for a context without a peer,
\* ErrNoCredentials for a peer whose record holds no credential, and otherwise
\* a credential with a nil error; never a nil credential with a nil error.
C7_FromContextClassifies ==
  rpc.fc # None
    => LET c == rpc.ctx[1]
           r == rpc.fc[1]
           held == IF c.auth # None /\ c.auth[1].type = "credInfo"
                     THEN c.auth[1].ucred ELSE None
       IN  /\ ~c.peer => r = [ucred |-> None, err |-> "ErrNoPeer"]
           /\ (c.peer /\ held = None)
                => r = [ucred |-> None, err |-> "ErrNoCredentials"]
           /\ (c.peer /\ held # None) => r = [ucred |-> held, err |-> "nil"]
           /\ ~(r.ucred = None /\ r.err = "nil")

\* C8: a credential attached to a connection comes back unchanged: after a
\* successful ServerHandshake on a connection carrying credential u, every
\* FromContext on a request context of that connection returns u and nil, and
\* the context still holds the handshake's record.
C8_RoundTrip ==
  (/\ rpc.fc # None
   /\ rpc.ctx[1].via # None
   /\ rpc.ctx[1].via[1].Ucred # None)
    => /\ rpc.fc[1] = [ucred |-> rpc.ctx[1].via[1].Ucred, err |-> "nil"]
       /\ rpc.ctx[1].auth = rpc.hs[1].info

\* C8 witness: the second lookup behind an inner transport-security layer
\* returned the credential of the connection.
C8_Witness ==
  /\ rpc.tcreds = "tls"
  /\ rpc.nfc = MaxLookups
  /\ rpc.ctx[1].via # None
  /\ rpc.fc[1] = [ucred |-> Some(PeerOf(2)), err |-> "nil"]

\* C9 as claimed: ClientHandshake returns no connection, no record and
\* errNotImplemented whatever the configuration.
C9_ClientNotImplemented ==
  rpc.ch # None
    => rpc.ch[1] = [conn |-> None, info |-> None, err |-> "errNotImplemented"]

\* C9 amended: ClientHandshake returns no connection, no record and
\* errNotImplemented when no inner layer is configured, and exactly the inner
\* layer's ClientHandshake result when one is.
C9_ClientDelegates ==
  rpc.ch # None
    => IF rpc.tcreds = "nil"
         THEN rpc.ch[1] =
                [conn |-> None, info |-> None, err |-> "errNotImplemented"]
         ELSE rpc.ch[1] = rpc.inner[1]

\* C9 witness: with an inner layer the client handshake succeeded.
C9_Witness ==
  /\ rpc.tcreds = "tls"
  /\ rpc.ch # None
  /\ rpc.ch[1].err = "nil"
  /\ rpc.ch[1].conn # None

\* C10: with an inner layer, a failed inner handshake makes ServerHandshake
\* return its error with a nil connection and a nil record; a successful one
\* yields the inner connection and one record holding the connection's
\* credential and the inner AuthInfo.
C10_InnerHandshake ==
  (rpc.hs # None /\ rpc.tcreds # "nil")
    => LET in == rpc.inner[1]
           c == rpc.conn[1]
       IN  IF in.err # "nil"
             THEN rpc.hs[1] = [conn |-> None, info |-> None, err |-> in.err]
             ELSE /\ rpc.hs[1].err = "nil"
                  /\ rpc.hs[1].conn = in.conn
                  /\ rpc.hs[1].info =
                       Some([type |-> "credInfo", ucred |-> c.Ucred,
                             inner |-> in.info])

\* C10 witness: the inner handshake failed on a connection that carries a
\* credential.
C10_Witness ==
  /\ rpc.tcreds = "tls"
  /\ rpc.hs # None
  /\ rpc.conn[1].Ucred # None
  /\ rpc.inner[1].err # "nil"
  /\ rpc.hs[1].err = "ErrTLSHandshake"

\* C11 as claimed: every Close call returns what the call that performed the
\* underlying release returned.
C11_SameOutcome == \A r \in closeRets : r.err = closeErr

\* C11 amended: the Close call that performs the underlying release returns
\* the wrapped Close's result, every other Close call returns nil.
C11_ReleaseOrNil ==
  \A r \in closeRets :
    r.err = IF r.by = "release" THEN closeErr ELSE "nil"

\* C11 witness: the release failed, and a Close call that did not perform it
\* has returned.
C11_Witness ==
  /\ closeErr = "ErrClose"
  /\ [by |-> "release", err |-> "ErrClose"] \in closeRets
  /\ [by |-> "skip", err |-> "nil"] \in closeRets

\* C17 as claimed: the watcher of a call that returned while its ctx was not
\* yet cancelled never closes the listener, whenever ctx is cancelled later.
C17_NoLateClose ==
  (cur.returned /\ cur.ctx \in UserCtxs /\ cur.cat \in {"no", "returned"})
    => clpc[Watcher(call)] \notin {"do", "run", "exitClosed"}

\* C18 as claimed: an AcceptContext call made with an already cancelled ctx
\* returns a nil connection and ctx.Err(), whatever is pending.
C18_PreCancelledReturnsCtxErr ==
  (cur.entry = "AcceptContext" /\ cur.cat = "before" /\ cur.returned)
    => cur.out = [conn |-> None, err |-> "Canceled"]

\* C19 as claimed: when the wrapped Accept completed before ctx was cancelled,
\* AcceptContext returns the accept error unchanged, and never ctx.Err().
C19_EarlyOutcomeKept ==
  (cur.entry = "AcceptContext" /\ cur.returned
     /\ cur.cat \notin {"before", "accepting"})
    => /\ cur.uerr # "nil" => cur.out = [conn |-> None, err |-> cur.uerr]
       /\ cur.out.err # "Canceled"

\* C19 amended: AcceptContext returns ctx.Err() in place of the accept error
\* exactly when ctx is cancelled by the time accept inspects ctx.Err(), right
\* after the wrapped Accept failed; otherwise the accept error is returned
\* unchanged, and the outcome of a successful accept is never replaced.
C19_ReplacedIffCancelledAtCheck ==
  (cur.entry = "AcceptContext" /\ cur.returned)
    => /\ cur.uerr # "nil" =>
            cur.out = [conn |-> None,
                       err |-> IF cur.cat \in {"before", "accepting", "failed"}
                                 THEN "Canceled" ELSE cur.uerr]
       /\ cur.uerr = "nil" => cur.out.err = cur.perr

\* C19 witness: the wrapped Accept failed on its own before ctx was
\* cancelled, and the call still returned ctx.Err().
C19_Witness ==
  /\ cur.entry = "AcceptContext"
  /\ cur.returned
  /\ cur.cat = "failed"
  /\ cur.uerr = "ErrTransient"
  /\ cur.out.err = "Canceled"

\* C20 as claimed: a connection accepted from the wrapped listener is, once
\* the accept call has returned, owned by the returned Conn or closed.
C20_OwnedOrClosed ==
  (cur.returned /\ cur.uconn # None)
    => (cur.out.conn # None \/ cur.uclosed)

\* C12: SDListenNames returns an error and no map, without handing any
\* descriptor to os.NewFile / net.FileListener, when LISTEN_PID or LISTEN_FDS
\* is missing, LISTEN_PID is not a number, or LISTEN_PID is not the process id.
C12_FailsBeforeWrapping ==
  LET e == sd.env
      bad == \/ e.LISTEN_PID = <<>>
             \/ e.LISTEN_FDS = <<>>
             \/ Atoi(e.LISTEN_PID).err # "nil"
             \/ Atoi(e.LISTEN_PID).val # e.pid
  IN  (bad /\ sd.pc \notin {"idle", "check"})
        => /\ sd.pc \in {"namesret", "done"}
           /\ sd.nerr # "nil"
           /\ sd.lismap = None
           /\ sd.wrapped = <<>>

\* C12 witness: SDListenNames has returned in a process whose LISTEN_PID is
\* the number of another process while LISTEN_FDS announces two descriptors.
C12_Witness ==
  /\ sd.pc = "namesret"
  /\ sd.env.pid = 1
  /\ sd.env.LISTEN_PID = <<"1", "2">>
  /\ sd.env.LISTEN_FDS = <<"2">>
  /\ sd.nerr = "ErrPidMismatch"

\* C13 as claimed: with LISTEN_FDS = N and N names in LISTEN_FDNAMES, the map
\* SDListenNames returns has exactly N listeners, the one under the i-th name
\* wraps descriptor 3+i, and each descriptor is wrapped exactly once.
C13_OneListenerPerName ==
  (sd.lismap # None /\ Len(sd.lfdnames) = sd.fdcnt)
    => /\ Cardinality(sd.lismap[1]) = sd.fdcnt
       /\ \A k \in 0..(sd.fdcnt - 1) :
            [name |-> sd.lfdnames[k + 1], fd |-> 3 + k] \in sd.lismap[1]
       /\ sd.wrapped = [k \in 1..sd.fdcnt |-> 3 + (k - 1)]

\* Lemma: C13 holds when the N names are pairwise different.
C13_DistinctNames ==
  (/\ sd.lismap # None
   /\ Len(sd.lfdnames) = sd.fdcnt
   /\ \A j, k \in 1..Len(sd.lfdnames) :
        sd.lfdnames[j] = sd.lfdnames[k] => j = k)
    => /\ Cardinality(sd.lismap[1]) = sd.fdcnt
       /\ \A k \in 0..(sd.fdcnt - 1) :
            [name |-> sd.lfdnames[k + 1], fd |-> 3 + k] \in sd.lismap[1]
       /\ sd.wrapped = [k \in 1..sd.fdcnt |-> 3 + (k - 1)]

\* C14 as claimed: when the count in LISTEN_FDS differs from the number of
\* names supplied in LISTEN_FDNAMES (none when it is unset or empty),
\* SDListenNames does not panic, reads no name that was not supplied, and
\* when it returns a map it has wrapped the smaller number of descriptors.
C14_MismatchHandled ==
  LET supplied == IF sd.env.LISTEN_FDNAMES = <<>> THEN 0 ELSE Len(sd.lfdnames)
      smaller == IF sd.fdcnt < supplied THEN sd.fdcnt ELSE supplied
  IN  (/\ sd.pc \notin {"idle", "check"}
       /\ SDPrecheck(sd.env).err = "nil"
       /\ sd.fdcnt # supplied)
        => /\ sd.pc # "panic"
           /\ Len(sd.wrapped) <= supplied
           /\ sd.lismap # None => Len(sd.wrapped) = smaller

\* C15 as claimed: SDListen hands back a listener only when exactly one was
\* discovered, and it is open; with none it returns an error; with several it
\* closes every one of them and returns an error.
C15_SingleOrNone ==
  LET found == { sd.wrapped[k] : k \in 1..Len(sd.wrapped) }
  IN  (sd.entry = "SDListen" /\ sd.pc = "done" /\ sd.nerr = "nil")
        => /\ Cardinality(found) = 0 => (sd.lis = None /\ sd.err # "nil")
           /\ Cardinality(found) = 1
                => (sd.lis = Some(sd.wrapped[1]) /\ sd.err = "nil"
                    /\ sd.closed = {})
           /\ Cardinality(found) > 1
                => (sd.lis = None /\ sd.err # "nil" /\ sd.closed = found)

\* Lemma: C15 holds of the listeners that are in the map SDListenNames
\* returned.
C15_SwitchOnMap ==
  LET found == IF sd.lismap = None THEN {} ELSE { e.fd : e \in sd.lismap[1] }
  IN  (sd.entry = "SDListen" /\ sd.pc = "done")
        => /\ Cardinality(found) = 0
                => (sd.lis = None /\ sd.err # "nil" /\ sd.closed = {})
           /\ Cardinality(found) = 1
                => (sd.lis # None /\ sd.lis[1] \in found /\ sd.err = "nil"
                    /\ sd.closed = {})
           /\ Cardinality(found) > 1
                => (sd.lis = None /\ sd.err # "nil" /\ sd.closed = found)

\* C16: when the bind fails, Listen returns the bare ErrAddrInUse if the
\* error's chain holds the EADDRINUSE errno at any depth, and otherwise the
\* bind error as it is.
C16_AddrInUseAtAnyDepth ==
  (bind.pc = "done" /\ bind.lerr # <<>>)
    => /\ bind.lis = None
       /\ bind.err = IF \E k \in 1..Len(bind.lerr) : bind.lerr[k] = "EADDRINUSE"
                       THEN <<"EADDRINUSE">>
                       ELSE bind.lerr

\* C16 witness: Listen has returned ErrAddrInUse for a bind error that holds
\* the errno three wrappers deep.
C16_Witness ==
  /\ bind.pc = "done"
  /\ bind.lerr = <<"fmt.wrapError", "net.OpError", "os.SyscallError",
                   "EADDRINUSE">>
  /\ bind.err = <<"EADDRINUSE">>

====
